---- MODULE Spec2Model ----
(***************************************************************************)
(* Makespan evaluation of a job-to-machine assignment                      *)
(* (src/src/scheduling/calculate_makespan.py).                             *)
(*                                                                         *)
(* A job record is [name, machine, start_time, completion_time, quantity]. *)
(* Job names are naturals; the reserved dummy name "0" is 0.  Times are    *)
(* naturals.  The caller's job list is the sequence `jobs`; the records    *)
(* are mutated in place, so a job object is identified by its position in  *)
(* `jobs`.                                                                 *)
(***************************************************************************)
EXTENDS Naturals, Sequences, FiniteSets

\* ------------------------------------------------------------------ bounds
\* most jobs in a ledger of the general inputs
MaxJobs == 2
\* largest input start_time / completion_time of the general inputs
MaxT == 2

\* the machine list the time tables are built from
MachineList == <<"m1", "m2">>

VARIABLES
    jobs,               \* the caller's list[JobResultInfo], mutated in place
    lp_jobs,            \* lp_instance.jobs: "0" followed by the job names
    machines,           \* lp_instance.machines / accelerators.keys()
    process_times,      \* process_times[i][k]: job lp_jobs[i+1] on machines[k]
    setup_times,        \* setup_times[i][j][k]: lp_jobs[i] before lp_jobs[j] on machines[k]
    calls_left,         \* calls the caller still makes
    pc,                 \* "idle" | "machine" | "job" | "done"
    for_bin,            \* _calc_makespan's for_bin
    job_names,          \* _calc_makespan's job_names
    machine_order,      \* keys of assigned_machines, in insertion order
    mi,                 \* position of the outer loop in machine_order
    assigned_jobs,      \* positions in jobs of the current machine's jobs
    assigned_jobs_copy, \* deepcopy(assigned_jobs): records
    order,              \* sorted(assigned_jobs, key=start_time): positions
    oi,                 \* position of the inner loop in order
    makespans,          \* the list makespans
    result,             \* returned value: [kind |-> "none" | "value" | "ValueError", value]
    input,              \* history: jobs as passed to the current call
    log,                \* history: one entry per processed job of the current call
    returned,           \* history: results of the calls that returned, in order
    resolver            \* a direct call of _find_last_completed: its arguments
                        \* job_name and machine (the list is jobs) and its outcome

vars == <<jobs, resolver, lp_jobs, machines, process_times, setup_times, calls_left, pc,
          for_bin, job_names, machine_order, mi, assigned_jobs,
          assigned_jobs_copy, order, oi, makespans, result, input, log, returned>>

\* ------------------------------------------------------------------ helpers
Range(s) == {s[i] : i \in 1..Len(s)}

\* list.index, 0 when absent
IndexOf(s, x) ==
    IF \E i \in 1..Len(s) : s[i] = x
    THEN CHOOSE i \in 1..Len(s) : s[i] = x /\ \A k \in 1..(i-1) : s[k] # x
    ELSE 0

\* the elements of a finite set of naturals, ascending
Ascending(P) ==
    [r \in 1..Cardinality(P) |->
        CHOOSE i \in P : Cardinality({k \in P : k < i}) = r - 1]

\* max(records, key=lambda x: x.completion_time): position of the first
\* maximal element
FirstMax(s) ==
    CHOOSE i \in 1..Len(s) :
        /\ \A k \in 1..Len(s) : s[k].completion_time <= s[i].completion_time
        /\ \A k \in 1..(i-1) : s[k].completion_time < s[i].completion_time

NatMax(S) == CHOOSE x \in S : \A y \in S : y <= x

\* ------------------------------------------------------------------ records
JobResultInfo(name, machine, start_time, completion_time, quantity) ==
    [name |-> name, machine |-> machine, start_time |-> start_time,
     completion_time |-> completion_time, quantity |-> quantity]

\* JobResultInfo("0", machine, 0.0, 0.0, 0)
DummyJob(machine) == JobResultInfo(0, machine, 0, 0, 0)

\* ------------------------------------------------------------------ time tables
\* the arguments pulp.makeDict is given
Tables(names, machs, ptimes, stimes) ==
    [job_names |-> names, machines |-> machs,
     process_times |-> ptimes, setup_times |-> stimes]

\* variant: a key absent from the table reads the table's first entry
p_times_absent_first(tabs, name, machine) ==
    LET i == IndexOf(Tail(tabs.job_names), name)
        k == IndexOf(tabs.machines, machine)
    IN  IF i = 0 \/ k = 0 THEN tabs.process_times[1][1] ELSE tabs.process_times[i][k]

\* variant: the processing time is read from the first machine's column
p_times_first_machine(tabs, name, machine) ==
    LET i == IndexOf(Tail(tabs.job_names), name)
        k == IndexOf(tabs.machines, machine)
    IN  IF i = 0 \/ k = 0 THEN 0 ELSE tabs.process_times[i][1]

\* p_times[name][machine] of pulp.makeDict([job_names[1:], machines], process_times, 0)
p_times(tabs, name, machine) ==
    LET i == IndexOf(Tail(tabs.job_names), name)
        k == IndexOf(tabs.machines, machine)
    IN  IF i = 0 \/ k = 0 THEN 0 ELSE tabs.process_times[i][k]

\* s_times[pred][name][machine] of
\* pulp.makeDict([job_names, job_names, machines], setup_times, 0)
s_times(tabs, pred, name, machine) ==
    LET i == IndexOf(tabs.job_names, pred)
        j == IndexOf(tabs.job_names, name)
        k == IndexOf(tabs.machines, machine)
    IN  IF i = 0 \/ j = 0 \/ k = 0 THEN 0 ELSE tabs.setup_times[i][j][k]

\* ------------------------------------------------------------------ partition and order
\* keys of assigned_machines: machines in order of first occurrence in jobs
AssignedMachines(js) ==
    LET first == {i \in 1..Len(js) :
                    \A k \in 1..(i-1) : js[k].machine # js[i].machine}
        pos == Ascending(first)
    IN  [r \in 1..Len(pos) |-> js[pos[r]].machine]

\* assigned_machines[machine]: the machine's jobs (positions in jobs), in list order
AssignedJobs(js, machine) ==
    Ascending({i \in 1..Len(js) : js[i].machine = machine})

\* variant: the machine's jobs are processed as partitioned, without the sort
SortedByStartUnsorted(js, assigned) == assigned

\* sorted(assigned_jobs, key=lambda x: x.start_time): stable
SortedByStart(js, assigned) ==
    LET K == 1..Len(assigned)
        Before(l, k) ==
            \/ js[assigned[l]].start_time < js[assigned[k]].start_time
            \/ /\ js[assigned[l]].start_time = js[assigned[k]].start_time
               /\ l < k
        Rank(k) == Cardinality({l \in K : Before(l, k)})
    IN  [r \in K |-> assigned[CHOOSE k \in K : Rank(k) = r - 1]]

\* deepcopy(assigned_jobs)
DeepCopy(js, assigned) == [r \in 1..Len(assigned) |-> js[assigned[r]]]

\* ------------------------------------------------------------------ predecessor resolution
\* variant: "completed before" taken strictly (<) instead of <=
find_last_completed_strict(job_name, copy, machine) ==
    IF \A i \in 1..Len(copy) : copy[i].name # job_name
    THEN [kind |-> "ValueError", job |-> DummyJob(machine)]
    ELSE LET original_starttime ==
                 copy[CHOOSE i \in 1..Len(copy) :
                        /\ copy[i].name = job_name
                        /\ \A k \in 1..(i-1) : copy[k].name # job_name].start_time
             completed_before ==
                 SelectSeq(copy, LAMBDA j : j.completion_time < original_starttime)
         IN  IF Len(completed_before) = 0
             THEN [kind |-> "job", job |-> DummyJob(machine)]
             ELSE [kind |-> "job",
                   job |-> completed_before[FirstMax(completed_before)]]

\* variant: a job name that is not in the list falls back to the dummy job
find_last_completed_fallback(job_name, copy, machine) ==
    IF \A i \in 1..Len(copy) : copy[i].name # job_name
    THEN [kind |-> "job", job |-> DummyJob(machine)]
    ELSE LET original_starttime ==
                 copy[CHOOSE i \in 1..Len(copy) :
                        /\ copy[i].name = job_name
                        /\ \A k \in 1..(i-1) : copy[k].name # job_name].start_time
             completed_before ==
                 SelectSeq(copy, LAMBDA j : j.completion_time <= original_starttime)
         IN  IF Len(completed_before) = 0
             THEN [kind |-> "job", job |-> DummyJob(machine)]
             ELSE [kind |-> "job",
                   job |-> completed_before[FirstMax(completed_before)]]

\* _find_last_completed(job_name, jobs, machine)
find_last_completed(job_name, copy, machine) ==
    IF \A i \in 1..Len(copy) : copy[i].name # job_name
    THEN [kind |-> "ValueError", job |-> DummyJob(machine)]
    ELSE LET original_starttime ==
                 copy[CHOOSE i \in 1..Len(copy) :
                        /\ copy[i].name = job_name
                        /\ \A k \in 1..(i-1) : copy[k].name # job_name].start_time
             completed_before ==
                 SelectSeq(copy, LAMBDA j : j.completion_time <= original_starttime)
         IN  IF Len(completed_before) = 0
             THEN [kind |-> "job", job |-> DummyJob(machine)]
             ELSE [kind |-> "job",
                   job |-> completed_before[FirstMax(completed_before)]]

\* max((job for job in assigned_jobs), key=lambda x: x.completion_time): live record
LiveMax(js, assigned) ==
    LET live == [r \in 1..Len(assigned) |-> js[assigned[r]]]
    IN  live[FirstMax(live)]

\* variant: dynamic-bin mode takes the maximum over the copy, not the live list
LastCompletedBinFromCopy(js, copy, assigned, pos, machine, forBin) ==
    IF forBin
    THEN [kind |-> "job",
          job |-> IF js[pos].start_time = 0 THEN DummyJob(machine)
                  ELSE copy[FirstMax(copy)]]
    ELSE LET found == find_last_completed(js[pos].name, copy, machine)
         IN  IF found.kind = "ValueError" THEN found
             ELSE [kind |-> "job",
                   job |-> IF js[pos].start_time = 0 THEN DummyJob(machine)
                           ELSE found.job]

\* variant: dynamic-bin mode without the start_time == 0.0 override
LastCompletedBinNoOverride(js, copy, assigned, pos, machine, forBin) ==
    IF forBin
    THEN [kind |-> "job", job |-> LiveMax(js, assigned)]
    ELSE LET found == find_last_completed(js[pos].name, copy, machine)
         IN  IF found.kind = "ValueError" THEN found
             ELSE [kind |-> "job",
                   job |-> IF js[pos].start_time = 0 THEN DummyJob(machine)
                           ELSE found.job]

\* variant: ordered-list mode resolves against the live list, not the copy
LastCompletedOrderedFromLive(js, copy, assigned, pos, machine, forBin) ==
    IF forBin
    THEN [kind |-> "job",
          job |-> IF js[pos].start_time = 0 THEN DummyJob(machine)
                  ELSE LiveMax(js, assigned)]
    ELSE LET found == find_last_completed(js[pos].name, DeepCopy(js, assigned), machine)
         IN  IF found.kind = "ValueError" THEN found
             ELSE [kind |-> "job",
                   job |-> IF js[pos].start_time = 0 THEN DummyJob(machine)
                           ELSE found.job]

\* last_completed of one pass through the inner loop body, for the job at pos
LastCompleted(js, copy, assigned, pos, machine, forBin) ==
    IF forBin
    THEN [kind |-> "job",
          job |-> IF js[pos].start_time = 0 THEN DummyJob(machine)
                  ELSE LiveMax(js, assigned)]
    ELSE LET found == find_last_completed(js[pos].name, copy, machine)
         IN  IF found.kind = "ValueError" THEN found
             ELSE [kind |-> "job",
                   job |-> IF js[pos].start_time = 0 THEN DummyJob(machine)
                           ELSE found.job]

\* job.start_time written by the inner loop body
NewStartTime(js, assigned, last_completed, forBin) ==
    IF forBin THEN last_completed.completion_time
    ELSE LET hits == {r \in 1..Len(assigned) :
                        js[assigned[r]].name = last_completed.name}
         IN  IF hits = {} THEN 0
             ELSE js[assigned[CHOOSE r \in hits : \A q \in hits : r <= q]].completion_time

\* variant: the setup time is left out of the sum
NewCompletionTimeNoSetup(tabs, last_completed, name, machine) ==
    last_completed.completion_time + p_times(tabs, name, machine)

\* job.completion_time written by the inner loop body
NewCompletionTime(tabs, last_completed, name, machine) ==
    last_completed.completion_time
        + p_times(tabs, name, machine)
        + s_times(tabs, last_completed.name, name, machine)

\* variant: the record is rebuilt with the dummy job's quantity
ProcessJobRebuildRecord(js, assigned, pos, machine, last_completed, forBin, tabs) ==
    [js EXCEPT
        ![pos] = JobResultInfo(
            js[pos].name, machine,
            NewStartTime(js, assigned, last_completed, forBin),
            NewCompletionTime(tabs, last_completed, js[pos].name, machine),
            0)]

\* variant: the completion time is computed from the predecessor's live
\* completion_time (the value also written to start_time)
ProcessJobLivePredecessor(js, assigned, pos, machine, last_completed, forBin, tabs) ==
    [js EXCEPT
        ![pos].start_time = NewStartTime(js, assigned, last_completed, forBin),
        ![pos].completion_time =
            NewStartTime(js, assigned, last_completed, forBin)
                + p_times(tabs, js[pos].name, machine)
                + s_times(tabs, last_completed.name, js[pos].name, machine)]

\* the ledger after the inner loop body ran for the job at pos
ProcessJob(js, assigned, pos, machine, last_completed, forBin, tabs) ==
    [js EXCEPT
        ![pos].start_time = NewStartTime(js, assigned, last_completed, forBin),
        ![pos].completion_time =
            NewCompletionTime(tabs, last_completed, js[pos].name, machine)]

\* max(job.completion_time for job in assigned_jobs)
MachineMakespan(js, assigned) ==
    NatMax({js[assigned[r]].completion_time : r \in 1..Len(assigned)})

\* ------------------------------------------------------------------ a whole call
\* the inner loop from position k of ord on: the ledger it leaves, or ValueError
RECURSIVE RunJobs(_, _, _, _, _, _, _, _)
RunJobs(js, copy, assigned, ord, k, machine, forBin, tabs) ==
    IF k > Len(ord) THEN [kind |-> "ok", jobs |-> js]
    ELSE LET lc == LastCompleted(js, copy, assigned, ord[k], machine, forBin)
         IN  IF lc.kind = "ValueError" THEN [kind |-> "ValueError", jobs |-> js]
             ELSE RunJobs(ProcessJob(js, assigned, ord[k], machine, lc.job, forBin, tabs),
                          copy, assigned, ord, k + 1, machine, forBin, tabs)

\* the outer loop from position k of mo on
RECURSIVE RunMachines(_, _, _, _, _, _)
RunMachines(js, mo, k, ms, forBin, tabs) ==
    IF k > Len(mo) THEN [kind |-> "ok", jobs |-> js, makespans |-> ms]
    ELSE LET assigned == AssignedJobs(js, mo[k])
             after == RunJobs(js, DeepCopy(js, assigned), assigned,
                              SortedByStart(js, assigned), 1, mo[k], forBin, tabs)
         IN  IF after.kind = "ValueError"
             THEN [kind |-> "ValueError", jobs |-> after.jobs, makespans |-> ms]
             ELSE RunMachines(after.jobs, mo, k + 1,
                              Append(ms, MachineMakespan(after.jobs, assigned)),
                              forBin, tabs)

\* variant: the last machine's finish time instead of the maximum
LastOfList(ms) ==
    IF Len(ms) = 0 THEN [kind |-> "ValueError", value |-> 0]
    ELSE [kind |-> "value", value |-> ms[Len(ms)]]

\* max(makespans); max() of an empty list raises ValueError
MaxOfList(ms) ==
    IF Len(ms) = 0 THEN [kind |-> "ValueError", value |-> 0]
    ELSE [kind |-> "value", value |-> NatMax(Range(ms))]

\* _calc_makespan(jobs, process_times, setup_times, job_names, machines, for_bin):
\* what it returns and the ledger it leaves
calc_makespan(js, ptimes, stimes, names, machs, forBin) ==
    LET run == RunMachines(js, AssignedMachines(js), 1, <<>>, forBin,
                           Tables(names, machs, ptimes, stimes))
    IN  IF run.kind = "ValueError"
        THEN [kind |-> "ValueError", value |-> 0, jobs |-> run.jobs]
        ELSE [kind |-> MaxOfList(run.makespans).kind,
              value |-> MaxOfList(run.makespans).value, jobs |-> run.jobs]

\* lp_jobs = ["0"] + [job.name for job in jobs]
BinJobNames(js) == <<0>> \o [i \in 1..Len(js) |-> js[i].name]

\* ------------------------------------------------------------------ inputs
Times == 0..MaxT

\* process_times rows follow lp_jobs[1:], columns follow the machine list
ZeroProcessTimes(n) == [i \in 1..n |-> [k \in 1..Len(MachineList) |-> 0]]
IndexProcessTimes(n) == [i \in 1..n |-> [k \in 1..Len(MachineList) |-> i + k - 1]]

\* setup_times rows and columns follow lp_jobs (row 1 is the dummy job "0")
ZeroSetupTimes(n) ==
    [i \in 1..(n+1) |-> [j \in 1..(n+1) |-> [k \in 1..Len(MachineList) |-> 0]]]
PredSetupTimes(n) ==
    [i \in 1..(n+1) |-> [j \in 1..(n+1) |-> [k \in 1..Len(MachineList) |-> i + k - 1]]]

\* the time tables tried for n jobs: no times at all, processing times only,
\* processing and setup times
TimeTables(n) ==
    {<<ZeroProcessTimes(n), ZeroSetupTimes(n)>>,
     <<IndexProcessTimes(n), ZeroSetupTimes(n)>>,
     <<IndexProcessTimes(n), PredSetupTimes(n)>>}

\* ledgers of n jobs named 1..n, in list order
Ledgers(n, Machs, Starts, Completions) ==
    {js \in [1..n -> [name : 1..n, machine : Machs, start_time : Starts,
                      completion_time : Completions, quantity : {1}]] :
        \A i \in 1..n : js[i].name = i}

\* any assignment of at most MaxJobs jobs, with one of three pairs of time tables
GeneralInput ==
    \E n \in 0..MaxJobs :
        /\ jobs \in Ledgers(n, Range(MachineList), Times, Times)
        /\ lp_jobs = <<0>> \o [i \in 1..n |-> i]
        /\ \E tt \in TimeTables(n) :
              /\ process_times = tt[1]
              /\ setup_times = tt[2]

\* three jobs on one machine, at least one of them with start_time 0
ThreeJobInput ==
    /\ jobs \in {js \in Ledgers(3, {MachineList[1]}, Times, Times) :
                    \E i \in 1..3 : js[i].start_time = 0}
    /\ lp_jobs = <<0, 1, 2, 3>>
    /\ \E tt \in TimeTables(3) :
          /\ process_times = tt[1]
          /\ setup_times = tt[2]

\* processing 5 for job 1 (A) and 3 for job 2 (B)
TwoJobProcessTimes ==
    [i \in 1..2 |-> [k \in 1..Len(MachineList) |-> IF i = 1 THEN 5 ELSE 3]]

\* setup 2 for B after A, none otherwise
TwoJobSetupTimes ==
    [i \in 1..3 |-> [j \in 1..3 |-> [k \in 1..Len(MachineList) |->
        IF i = 2 /\ j = 3 THEN 2 ELSE 0]]]

\* jobs A (name 1: start 0, processing 5, no setup) and B (name 2: start 5,
\* processing 3, setup 2 after A) alone on one machine, in either list order
TwoJobInput ==
    /\ \E ca \in 0..5, cb \in 0..8 :
         LET A == JobResultInfo(1, MachineList[1], 0, ca, 1)
             B == JobResultInfo(2, MachineList[1], 5, cb, 1)
         IN  jobs \in {<<A, B>>, <<B, A>>}
    /\ lp_jobs = <<0, 1, 2>>
    /\ process_times = TwoJobProcessTimes
    /\ setup_times = TwoJobSetupTimes

\* a machine that is not in the machine list the time tables are built from
AbsentMachine == "m3"

\* two jobs, each on a listed machine or on the absent one; lp_instance.jobs
\* may leave one of the two job names out
AbsentInput ==
    /\ jobs \in Ledgers(2, {MachineList[1], AbsentMachine}, Times, Times)
    /\ lp_jobs \in {<<0, 1, 2>>, <<0, 1>>, <<0, 2>>}
    /\ process_times = IndexProcessTimes(2)
    /\ setup_times = PredSetupTimes(2)

NoResult == [kind |-> "none", value |-> 0]

\* no direct call of _find_last_completed is made
NoQuery == [asked |-> FALSE, job_name |-> 0, machine |-> MachineList[1],
            out |-> [kind |-> "none", job |-> DummyJob(MachineList[1])]]

NoCall ==
    /\ machines = MachineList
    /\ pc = "idle"
    /\ for_bin = FALSE
    /\ job_names = <<>>
    /\ machine_order = <<>>
    /\ mi = 1
    /\ assigned_jobs = <<>>
    /\ assigned_jobs_copy = <<>>
    /\ order = <<>>
    /\ oi = 1
    /\ makespans = <<>>
    /\ result = NoResult
    /\ input = jobs
    /\ log = <<>>
    /\ returned = <<>>

Idle ==
    /\ NoCall
    /\ resolver = NoQuery

\* the caller makes one call
Init ==
    /\ GeneralInput \/ ThreeJobInput \/ TwoJobInput \/ AbsentInput
    /\ calls_left = 1
    /\ Idle

\* the caller calls twice, passing the same objects again
InitRerun ==
    /\ GeneralInput \/ TwoJobInput
    /\ calls_left = 2
    /\ Idle

\* ------------------------------------------------------------------ actions
\* entry into _calc_makespan up to the outer loop (lines 87-101)
Enter(names, forBin) ==
    /\ pc \in {"idle", "done"}
    /\ calls_left > 0
    /\ calls_left' = calls_left - 1
    /\ for_bin' = forBin
    /\ job_names' = names
    /\ machine_order' = AssignedMachines(jobs)
    /\ mi' = 1
    /\ assigned_jobs' = <<>>
    /\ assigned_jobs_copy' = <<>>
    /\ order' = <<>>
    /\ oi' = 1
    /\ makespans' = <<>>
    /\ result' = NoResult
    /\ input' = jobs
    /\ log' = <<>>
    /\ pc' = "machine"
    /\ UNCHANGED <<jobs, resolver, lp_jobs, machines, process_times, setup_times, returned>>

calculate_makespan == Enter(lp_jobs, FALSE)

calculate_bin_makespan == Enter(BinJobNames(jobs), TRUE)

\* head of the outer loop: deepcopy and sorted (lines 102-104)
ForMachine ==
    /\ pc = "machine"
    /\ mi <= Len(machine_order)
    /\ LET assigned == AssignedJobs(jobs, machine_order[mi])
       IN  /\ assigned_jobs' = assigned
           /\ assigned_jobs_copy' = DeepCopy(jobs, assigned)
           /\ order' = SortedByStart(jobs, assigned)
    /\ oi' = 1
    /\ pc' = "job"
    /\ UNCHANGED <<jobs, resolver, lp_jobs, machines, process_times, setup_times, calls_left,
                   for_bin, job_names, machine_order, mi, makespans, result,
                   input, log, returned>>

\* one pass through the inner loop body (lines 104-136)
ForJob ==
    /\ pc = "job"
    /\ oi <= Len(order)
    /\ LET machine == machine_order[mi]
           pos == order[oi]
           tabs == Tables(job_names, machines, process_times, setup_times)
           lc == LastCompleted(jobs, assigned_jobs_copy, assigned_jobs, pos,
                               machine, for_bin)
       IN  IF lc.kind = "ValueError"
           THEN /\ result' = [kind |-> "ValueError", value |-> 0]
                /\ returned' = Append(returned, [for_bin |-> for_bin,
                                                 result |-> result'])
                /\ pc' = "done"
                /\ UNCHANGED <<jobs, oi, log>>
           ELSE /\ jobs' = ProcessJob(jobs, assigned_jobs, pos, machine, lc.job,
                                      for_bin, tabs)
                /\ log' = Append(log, [pos |-> pos, job |-> jobs[pos],
                                       machine |-> machine,
                                       last_completed |-> lc.job,
                                       live |-> jobs])
                /\ oi' = oi + 1
                /\ UNCHANGED <<result, returned, pc>>
    /\ UNCHANGED <<resolver, lp_jobs, machines, process_times, setup_times, calls_left,
                   for_bin, job_names, machine_order, mi, assigned_jobs,
                   assigned_jobs_copy, order, makespans, input>>

\* after the inner loop: makespans.append (line 137)
EndMachine ==
    /\ pc = "job"
    /\ oi > Len(order)
    /\ makespans' = Append(makespans, MachineMakespan(jobs, assigned_jobs))
    /\ mi' = mi + 1
    /\ pc' = "machine"
    /\ UNCHANGED <<jobs, resolver, lp_jobs, machines, process_times, setup_times, calls_left,
                   for_bin, job_names, machine_order, assigned_jobs,
                   assigned_jobs_copy, order, oi, result, input, log, returned>>

\* return max(makespans) (line 139)
Return ==
    /\ pc = "machine"
    /\ mi > Len(machine_order)
    /\ result' = MaxOfList(makespans)
    /\ returned' = Append(returned, [for_bin |-> for_bin, result |-> result'])
    /\ pc' = "done"
    /\ UNCHANGED <<jobs, resolver, lp_jobs, machines, process_times, setup_times, calls_left,
                   for_bin, job_names, machine_order, mi, assigned_jobs,
                   assigned_jobs_copy, order, oi, makespans, input, log>>

Next ==
    \/ calculate_makespan
    \/ calculate_bin_makespan
    \/ ForMachine
    \/ ForJob
    \/ EndMachine
    \/ Return

Spec == Init /\ [][Next]_vars

\* ------------------------------------------------------------------ the resolver alone
\* _find_last_completed is handed a list of jobs of one machine and a job
\* name that may or may not occur in it
InitResolver ==
    /\ \E n \in 0..MaxJobs :
          /\ jobs \in Ledgers(n, {MachineList[1]}, Times, Times)
          /\ lp_jobs = <<0>> \o [i \in 1..n |-> i]
          /\ process_times = ZeroProcessTimes(n)
          /\ setup_times = ZeroSetupTimes(n)
    /\ \E name \in 0..(MaxJobs + 1) :
          resolver = [NoQuery EXCEPT !.asked = TRUE, !.job_name = name]
    /\ calls_left = 0
    /\ NoCall

\* _find_last_completed(job_name, jobs, machine) (lines 39-53)
FindLastCompleted ==
    /\ resolver.asked
    /\ resolver.out.kind = "none"
    /\ resolver' = [resolver EXCEPT
                       !.out = find_last_completed(resolver.job_name, jobs,
                                                   resolver.machine)]
    /\ UNCHANGED <<jobs, lp_jobs, machines, process_times, setup_times, calls_left,
                   pc, for_bin, job_names, machine_order, mi, assigned_jobs,
                   assigned_jobs_copy, order, oi, makespans, result, input, log,
                   returned>>

NextResolver == FindLastCompleted

SpecResolver == InitResolver /\ [][NextResolver]_vars

SpecRerun == InitRerun /\ [][Next]_vars

\* ------------------------------------------------------------------ properties
\* the time tables of the current call
CurTables == Tables(job_names, machines, process_times, setup_times)

\* the log entries of the current call
Entries == {log[k] : k \in 1..Len(log)}

\* the records of the machine's jobs in a ledger
OnMachine(js, machine) == {js[q] : q \in {i \in 1..Len(js) : js[i].machine = machine}}

\* C1: under either policy a processed job's completion_time is the resolved
\* predecessor's completion_time (0 for the dummy job, the snapshot value in
\* ordered-list mode, the live value in dynamic-bin mode, as read when the job
\* is processed) plus p(j,m) plus s(pred,j,m), and it keeps that value until
\* the call has returned.
C1_CompletionFormula ==
    \A e \in Entries :
        /\ jobs[e.pos].completion_time =
              e.last_completed.completion_time
                + p_times(CurTables, e.job.name, e.machine)
                + s_times(CurTables, e.last_completed.name, e.job.name, e.machine)
        /\ \/ e.last_completed = DummyJob(e.machine)
           \/ /\ ~for_bin
              /\ e.last_completed \in OnMachine(input, e.machine)
           \/ /\ for_bin
              /\ e.last_completed \in OnMachine(e.live, e.machine)

\* a returned call that used a real predecessor with a non-zero completion,
\* processing and setup time
C1_Witness ==
    /\ pc = "done"
    /\ \E e \in Entries :
        /\ e.last_completed.name # 0
        /\ e.last_completed.completion_time > 0
        /\ p_times(CurTables, e.job.name, e.machine) > 0
        /\ s_times(CurTables, e.last_completed.name, e.job.name, e.machine) > 0

\* C2: in ordered-list mode the snapshot of a machine's jobs holds their input
\* values, and the predecessor of a job whose input start_time is not 0 is a
\* job of its machine with the largest input completion_time among those
\* whose input completion_time <= the job's input start_time, and the dummy
\* job when there is none.
C2_OrderedPredecessor ==
    ~for_bin =>
        /\ pc = "job" =>
              assigned_jobs_copy = DeepCopy(input, assigned_jobs)
        /\ \A e \in Entries :
                input[e.pos].start_time # 0 =>
                    LET cands == {r \in OnMachine(input, e.machine) :
                                    r.completion_time <= input[e.pos].start_time}
                    IN  IF cands = {}
                        THEN e.last_completed = DummyJob(e.machine)
                        ELSE /\ e.last_completed \in cands
                             /\ \A r \in cands :
                                  r.completion_time <= e.last_completed.completion_time

\* an ordered-list call in which one job got a real predecessor other than
\* itself, chosen among two candidates, and another got the dummy job for want
\* of a candidate
C2_Witness ==
    /\ pc = "done"
    /\ ~for_bin
    /\ \E e \in Entries :
        /\ input[e.pos].start_time # 0
        /\ e.last_completed.name \notin {0, e.job.name}
        /\ Cardinality({r \in OnMachine(input, e.machine) :
                          r.completion_time <= input[e.pos].start_time}) >= 2
    /\ \E e \in Entries :
        /\ input[e.pos].start_time # 0
        /\ e.last_completed = DummyJob(e.machine)

\* C3: in dynamic-bin mode the predecessor of a job whose start_time is not 0
\* is a job of its machine whose completion_time is maximal in the live ledger
\* at the moment the job is processed.
C3_BinPredecessor ==
    for_bin =>
        \A e \in Entries :
            input[e.pos].start_time # 0 =>
                /\ e.last_completed \in OnMachine(e.live, e.machine)
                /\ \A r \in OnMachine(e.live, e.machine) :
                      r.completion_time <= e.last_completed.completion_time

\* a dynamic-bin call in which a job's predecessor is another job whose
\* completion_time had been rewritten earlier in the pass
C3_Witness ==
    /\ pc = "done"
    /\ for_bin
    /\ \E e \in Entries :
        /\ input[e.pos].start_time # 0
        /\ e.last_completed.name \notin {0, e.job.name}
        /\ \E q \in 1..Len(input) :
              /\ input[q].name = e.last_completed.name
              /\ input[q].completion_time # e.last_completed.completion_time

\* C4: under either policy a job whose input start_time is 0 gets the dummy job
\* as predecessor, so its completion_time after the call is p(j,m) + s("0",j,m).
C4_StartZeroDummy ==
    \A e \in Entries :
        input[e.pos].start_time = 0 =>
            /\ e.last_completed = DummyJob(e.machine)
            /\ jobs[e.pos].completion_time =
                  p_times(CurTables, e.job.name, e.machine)
                    + s_times(CurTables, 0, e.job.name, e.machine)

\* dynamic-bin mode, three jobs on one machine: a job with start_time 0 was
\* processed while another job held a higher, non-zero completion_time
C4_Witness ==
    /\ pc = "done"
    /\ for_bin
    /\ \E e \in Entries :
        /\ input[e.pos].start_time = 0
        /\ Cardinality(OnMachine(input, e.machine)) = 3
        /\ \E r \in OnMachine(e.live, e.machine) :
              /\ r.name # e.job.name
              /\ r.completion_time > e.job.completion_time
              /\ r.completion_time > 0
        /\ jobs[e.pos].completion_time > 0

\* C5: for a non-empty assignment the returned value is the maximum, over all
\* jobs of the ledger, of the completion_time left in the ledger.
C5_ReturnsMaxCompletion ==
    (pc = "done" /\ Len(jobs) > 0) =>
        /\ result.kind = "value"
        /\ result.value = NatMax({jobs[i].completion_time : i \in 1..Len(jobs)})

\* a returned call over two machines whose finish times differ, the larger
\* one belonging to the machine processed first
C5_Witness ==
    /\ pc = "done"
    /\ Len(makespans) = 2
    /\ makespans[1] > makespans[2]
    /\ result.value = makespans[1]

\* the input of the current call is the two-job scenario, A's input
\* completion_time being at most B's start_time
TwoJobScenario ==
    /\ Len(input) = 2
    /\ process_times = TwoJobProcessTimes
    /\ setup_times = TwoJobSetupTimes
    /\ \A q \in 1..2 : input[q].name = 1 => input[q].completion_time <= 5

\* C6: ordered-list policy on the two-job scenario: after the call
\* A.completion_time = 5, B's predecessor is A, B.completion_time = 10 and the
\* makespan is 10.
C6_TwoJobScenario ==
    (pc = "done" /\ ~for_bin /\ TwoJobScenario) =>
        /\ \A e \in Entries :
              /\ e.job.name = 1 => jobs[e.pos].completion_time = 5
              /\ e.job.name = 2 => /\ e.last_completed.name = 1
                                   /\ jobs[e.pos].completion_time = 10
        /\ result = [kind |-> "value", value |-> 10]

\* every processing and setup time of the call is 0
ZeroTables ==
    /\ \A i \in 1..Len(process_times), k \in 1..Len(MachineList) :
          process_times[i][k] = 0
    /\ \A i \in 1..Len(setup_times), j \in 1..Len(setup_times),
          k \in 1..Len(MachineList) : setup_times[i][j][k] = 0

\* C7: with every processing and setup time 0, after the call every job's
\* completion_time equals its predecessor's completion_time and the returned
\* makespan is 0.
C7_ZeroTimesZeroMakespan ==
    (pc = "done" /\ ZeroTables /\ Len(jobs) > 0) =>
        /\ \A e \in Entries :
              jobs[e.pos].completion_time = e.last_completed.completion_time
        /\ result = [kind |-> "value", value |-> 0]

\* what the other entry point returns for the input of the current call
OtherPolicyResult ==
    LET r == calc_makespan(input, process_times, setup_times,
                           IF for_bin THEN lp_jobs ELSE BinJobNames(input),
                           machines, ~for_bin)
    IN  [kind |-> r.kind, value |-> r.value]

\* each machine holds at most one job of the input
OneJobPerMachine ==
    \A a, b \in 1..Len(input) : input[a].machine = input[b].machine => a = b

\* C8: when each machine holds exactly one job, calculate_makespan and
\* calculate_bin_makespan return the same makespan for the same tables.
C8_PoliciesAgreeOneJobPerMachine ==
    (pc = "done" /\ Len(input) > 0 /\ OneJobPerMachine) =>
        result = OtherPolicyResult

\* C9: a second call of calculate_makespan with the same ledger, tables, job
\* order and machine order returns the same makespan as the first.
C9_RerunSameMakespan ==
    (Len(returned) = 2 /\ ~returned[1].for_bin /\ ~returned[2].for_bin) =>
        returned[1].result = returned[2].result

\* the reorderings of a ledger
Permutations(js) ==
    {[i \in 1..Len(js) |-> js[f[i]]] :
        f \in {g \in [1..Len(js) -> 1..Len(js)] :
                 \A a, b \in 1..Len(js) : g[a] = g[b] => a = b}}

\* what calculate_makespan returns for a ledger, with the tables of the call
OrderedResult(js) ==
    LET r == calc_makespan(js, process_times, setup_times, lp_jobs, machines, FALSE)
    IN  [kind |-> r.kind, value |-> r.value]

\* no two jobs of one machine have the same input completion_time
DistinctCompletions ==
    \A a, b \in 1..Len(input) :
        (input[a].machine = input[b].machine
            /\ input[a].completion_time = input[b].completion_time) => a = b

\* C10 as stated: in ordered-list mode every permutation of the input job list
\* gives the same makespan.
C10_PermutationSameMakespan ==
    (pc = "done" /\ ~for_bin) =>
        \A js \in Permutations(input) : OrderedResult(js) = result

\* C10 amended: in ordered-list mode every permutation of the input job list
\* gives the same makespan, provided no two jobs of one machine have the same
\* input completion_time.
C10_PermutationSameMakespanDistinct ==
    (pc = "done" /\ ~for_bin /\ DistinctCompletions) =>
        \A js \in Permutations(input) : OrderedResult(js) = result

\* an ordered-list call on three jobs of one machine with pairwise distinct
\* completion times, two of them with the same start_time, where a job's
\* predecessor is another job and the makespan is not 0
C10_Witness ==
    /\ pc = "done"
    /\ ~for_bin
    /\ DistinctCompletions
    /\ Len(input) = 3
    /\ \E a, b \in 1..3 : a # b /\ input[a].start_time = input[b].start_time
    /\ \E e \in Entries : e.last_completed.name \notin {0, e.job.name}
    /\ result.kind = "value"
    /\ result.value > 0

\* the pairs of time tables of the shape of the call's tables
AltTables ==
    TimeTables(Len(process_times))
        \cup (IF Len(process_times) = 2
              THEN {<<TwoJobProcessTimes, TwoJobSetupTimes>>} ELSE {})

\* process_times with the column of machine m2 taken from alt
MixProcessTimes(alt, m2) ==
    [i \in 1..Len(process_times) |-> [k \in 1..Len(process_times[i]) |->
        IF machines[k] = m2 THEN alt[i][k] ELSE process_times[i][k]]]

\* setup_times with the entries of machine m2 taken from alt
MixSetupTimes(alt, m2) ==
    [i \in 1..Len(setup_times) |-> [j \in 1..Len(setup_times[i]) |->
        [k \in 1..Len(setup_times[i][j]) |->
            IF machines[k] = m2 THEN alt[i][j][k] ELSE setup_times[i][j][k]]]]

\* the ledger the same entry point leaves for the input of the current call
\* when the tables' entries for machine m2 are taken from alt
LedgerWithOtherTimesOn(alt, m2) ==
    calc_makespan(input, MixProcessTimes(alt[1], m2), MixSetupTimes(alt[2], m2),
                  job_names, machines, for_bin).jobs

\* the records of the jobs that are not on machine m2, in list order
OffMachine(js, m2) == SelectSeq(js, LAMBDA j : j.machine # m2)

\* C11: two runs of the same policy on the same assignment whose time tables
\* differ only in entries for machine M2 leave every job of any other machine
\* with the same start_time and completion_time.
C11_CrossMachineIndependence ==
    [](pc = "done" =>
        \A m2 \in Range(machines), alt \in AltTables :
            OffMachine(LedgerWithOtherTimesOn(alt, m2), m2) = OffMachine(jobs, m2))

\* a returned call with jobs on two machines, for which other times on one
\* machine change a completion_time on that machine, the other machine's job
\* having got a non-zero completion_time
C11_Witness ==
    /\ pc = "done"
    /\ \E m2 \in Range(machines), alt \in AltTables :
        LET other == LedgerWithOtherTimesOn(alt, m2)
        IN  /\ \E i \in 1..Len(input) :
                  /\ input[i].machine = m2
                  /\ other[i].completion_time # jobs[i].completion_time
            /\ \E i \in 1..Len(input) :
                  /\ input[i].machine # m2
                  /\ jobs[i].completion_time > 0

C13_ResolverJobNotFound ==
    (resolver.out.kind # "none"
        /\ \A i \in 1..Len(jobs) : jobs[i].name # resolver.job_name) =>
            /\ resolver.out.kind = "ValueError"
            /\ jobs = input

\* the resolver raised ValueError on a list of two jobs, one of which is
\* completed before the other starts
C13_Witness ==
    /\ resolver.out.kind = "ValueError"
    /\ Len(jobs) = 2
    /\ \E a, b \in 1..2 :
          /\ a # b
          /\ jobs[a].completion_time <= jobs[b].start_time
          /\ jobs[a].completion_time > 0

\* the call ended in the inner loop, with the resolver's ValueError
ResolverRaised ==
    /\ result.kind = "ValueError"
    /\ mi <= Len(machine_order)
    /\ oi <= Len(order)
    /\ LastCompleted(jobs, assigned_jobs_copy, assigned_jobs, order[oi],
                     machine_order[mi], for_bin).kind = "ValueError"

\* C14: for every assignment with non-negative times, the empty assignment
\* included, a call of either entry point ends returning a number >= 0, or
\* with the resolver's job-not-found error and no other.
C14_ReturnsNonNegativeNumber ==
    pc = "done" =>
        \/ result.kind = "value" /\ result.value >= 0
        \/ ResolverRaised

\* the predecessor of the job at pos as resolved from the input values alone
PredecessorFromInput(pos, machine) ==
    LET assigned == AssignedJobs(input, machine)
    IN  LastCompleted(input, DeepCopy(input, assigned), assigned, pos, machine,
                      FALSE).job

\* C15: in ordered-list mode the predecessor and the completion_time of a job
\* are functions of the values the machine's jobs had when the pass started,
\* and the completion times the pass leaves are the same for every order in
\* which the machine's jobs are processed.
C15_OrderedUsesSnapshotOnly ==
    (pc = "done" /\ ~for_bin) =>
        /\ \A e \in Entries :
              \A pred \in {PredecessorFromInput(e.pos, e.machine)} :
                  /\ e.last_completed = pred
                  /\ jobs[e.pos].completion_time =
                        NewCompletionTime(CurTables, pred, input[e.pos].name,
                                          e.machine)
        /\ \A m \in Range(machine_order) :
              \A assigned \in {AssignedJobs(input, m)} :
                  \A ord \in Permutations(assigned) :
                      \A run \in {RunJobs(input, DeepCopy(input, assigned),
                                          assigned, ord, 1, m, FALSE, CurTables)} :
                          \A i \in Range(assigned) :
                              run.jobs[i].completion_time = jobs[i].completion_time

\* a returned ordered-list call in which a job followed a job processed before
\* it whose completion_time the pass had changed
C15_Witness ==
    /\ pc = "done"
    /\ ~for_bin
    /\ \E k \in 1..Len(log), l \in 1..Len(log) :
        /\ l < k
        /\ log[k].machine = log[l].machine
        /\ log[k].last_completed.name = log[l].job.name
        /\ jobs[log[l].pos].completion_time
              # log[k].last_completed.completion_time
        /\ jobs[log[k].pos].completion_time > 0

\* the ledger positions of the jobs of one machine in the order the inner loop
\* processed them
RECURSIVE ProcessedOrder(_, _)
ProcessedOrder(k, machine) ==
    IF k = 0 THEN <<>>
    ELSE IF log[k].machine = machine
         THEN Append(ProcessedOrder(k - 1, machine), log[k].pos)
         ELSE ProcessedOrder(k - 1, machine)

\* the positions in po are in ascending input start_time order, equal
\* start times in insertion order
AscendingByInputStart(po) ==
    \A a \in 1..Len(po), b \in 1..Len(po) :
        a < b =>
            \/ input[po[a]].start_time < input[po[b]].start_time
            \/ /\ input[po[a]].start_time = input[po[b]].start_time
               /\ po[a] < po[b]

\* C16 (as stated): the jobs of one machine are processed in insertion order in
\* dynamic-bin mode and in ascending input start_time order (ties in insertion
\* order) in ordered-list mode.
C16_SortedInOrderedModeOnly ==
    (pc = "done" /\ result.kind = "value") =>
        \A m \in Range(machine_order) :
            LET po == ProcessedOrder(Len(log), m)
            IN  IF for_bin
                THEN po = AssignedJobs(input, m)
                ELSE /\ Range(po) = Range(AssignedJobs(input, m))
                     /\ Len(po) = Len(AssignedJobs(input, m))
                     /\ AscendingByInputStart(po)

\* C16 (amended): in both modes the jobs of one machine are processed, each
\* once, in ascending input start_time order, ties in insertion order.
C16_SortedInBothModes ==
    (pc = "done" /\ result.kind = "value") =>
        \A m \in Range(machine_order) :
            LET po == ProcessedOrder(Len(log), m)
            IN  /\ Range(po) = Range(AssignedJobs(input, m))
                /\ Len(po) = Len(AssignedJobs(input, m))
                /\ AscendingByInputStart(po)

\* a returned dynamic-bin call that processed a machine's jobs in an order other
\* than their insertion order
C16_Witness ==
    /\ pc = "done"
    /\ for_bin
    /\ result.kind = "value"
    /\ \E m \in Range(machine_order) :
          ProcessedOrder(Len(log), m) # AssignedJobs(input, m)

\* C17: in dynamic-bin mode the predecessor resolved for a job is the dummy job
\* or a job of the same machine processed earlier in the current pass.
C17_BinPredecessorAlreadyProcessed ==
    for_bin =>
        \A k \in 1..Len(log) :
            \/ log[k].last_completed = DummyJob(log[k].machine)
            \/ \E l \in 1..(k - 1) :
                  /\ log[l].machine = log[k].machine
                  /\ log[l].job.name = log[k].last_completed.name

\* C19: under either policy the predecessor resolved for a job is never that
\* job itself.
C19_PredecessorIsAnotherJob ==
    \A e \in Entries : e.last_completed.name # e.job.name

\* C20: after a call that returned a number every job of the ledger has
\* start_time <= completion_time.
C20_StartNotAfterCompletion ==
    (pc = "done" /\ result.kind = "value") =>
        \A i \in 1..Len(jobs) : jobs[i].start_time <= jobs[i].completion_time

\* C18: a call changes only the start_time and completion_time fields of the
\* job records: every step keeps the number and order of the records, each
\* record's name, machine and quantity, and the time tables, job names and
\* machine list the caller passed.
C18_OnlyTimesChange ==
    [][/\ Len(jobs') = Len(jobs)
       /\ \A i \in 1..Len(jobs) :
             /\ jobs'[i].name = jobs[i].name
             /\ jobs'[i].machine = jobs[i].machine
             /\ jobs'[i].quantity = jobs[i].quantity
       /\ process_times' = process_times
       /\ setup_times' = setup_times
       /\ lp_jobs' = lp_jobs
       /\ machines' = machines]_vars

\* a returned call that followed the dummy job and changed the ledger
C18_Witness ==
    /\ pc = "done"
    /\ result.kind = "value"
    /\ jobs # input
    /\ Len(jobs) = Len(input)
    /\ \E e \in Entries : e.last_completed = DummyJob(e.machine)

====
